---- MODULE Spec2Model ----
(***************************************************************************)
(* State-machine model of the slooze food-ordering backend                 *)
(* (src/app/routers, src/app/core, src/app/models).                        *)
(*                                                                         *)
(* The persistent store is the only shared state.  Rows are kept in        *)
(* sequences, a row's primary key is its index.  Money is counted in       *)
(* hundredths, the scale of the Numeric(10, 2) columns.  Display-only      *)
(* columns (names, descriptions, e-mail, card digits) are left out: no     *)
(* handler branches on them.  The amounts of the model stay far below the  *)
(* range of Numeric(10, 2), so the column's overflow error never occurs.   *)
(* resp is the response to the last request, sess what each running task   *)
(* has loaded, cred the bearer token of the request where it is modelled.  *)
(***************************************************************************)
EXTENDS Integers, Sequences, FiniteSets, TLC

VARIABLES users, restaurants, menu_items, orders, order_items,
          payment_methods, resp, sess, cred

vars == <<users, restaurants, menu_items, orders, order_items,
          payment_methods, resp, sess, cred>>

store == <<users, restaurants, menu_items, orders, order_items,
           payment_methods>>

\* ------------------------------------------------------------------ bounds
MaxOrders == 1
MaxOrderItems == 2
MaxRestaurants == 2
MaxMenuItems == 2
NumProcs == 2
MaxSkip == 1
MaxLimit == 2
MaxPayments == 3

\* -------------------------------------------------------- program constants
HTTP_OK == 200
HTTP_BAD_REQUEST == 400
HTTP_UNAUTHORIZED == 401
HTTP_FORBIDDEN == 403
HTTP_NOT_FOUND == 404

\* seed.py inserts the roles and the countries in enum order; a country's
\* id is its position.
RoleEnum == {"ADMIN", "MANAGER", "MEMBER"}
CountryEnum == <<"India", "America">>
CountryIds == DOMAIN CountryEnum

\* ------------------------------------------------------------------ inputs
\* Registered users: an ADMIN in India, a MANAGER in America, a MEMBER in
\* India (auth.py register stores role and country, nothing changes them).
RegisteredUsers ==
    <<[role |-> "ADMIN", country_id |-> 1],
      [role |-> "MANAGER", country_id |-> 2],
      [role |-> "MEMBER", country_id |-> 1]>>

\* AddItemRequest.quantity is a plain int: any integer passes validation.
Quantities == {-1, 2}

\* --------------------------------------------------------------- responses
Idle == [op |-> "idle", pc |-> "idle", caller |-> 0, target |-> 0,
         arg |-> 0, quantity |-> 0, total_amount |-> 0, price |-> 0]

\* PaginationMetadata (schemas/restaurant.py)
NoPage == [total |-> 0, skip |-> 0, limit |-> 0, start |-> 0, end |-> 0]

NoResp == [op |-> "none", caller |-> 0, target |-> 0, arg |-> 0,
           code |-> 0, rows |-> {}, page |-> NoPage]

\* The response to a request: op, caller, target and arg are the request,
\* code is the HTTP status, rows and page are the body of a list response.
Response(op, caller, target, arg, code) ==
    [op |-> op, caller |-> caller, target |-> target, arg |-> arg,
     code |-> code, rows |-> {}, page |-> NoPage]

ListResponse(op, caller, target, rows, page) ==
    [op |-> op, caller |-> caller, target |-> target, arg |-> 0,
     code |-> HTTP_OK, rows |-> rows, page |-> page]

\* cred is the bearer credential of the request that resp answers, for the
\* requests whose credential is modelled; NoToken otherwise.
NoToken == [signature |-> "none", sub |-> 0, role |-> "none"]

\* The caller takes the response of the request it sent.
read_response ==
    /\ resp # NoResp
    /\ resp' = NoResp
    /\ cred' = NoToken
    /\ UNCHANGED <<store, sess>>

\* ------------------------------------------------------ identity and access
\* A bearer token: signature says what jwt.decode makes of it ("valid", or
\* "malformed", "invalid", "expired", for which it raises a JWTError), sub
\* is its subject claim: NoSub when the claim is missing, NotUuid when it
\* is no UUID, else the user id it names.  role is its role claim: the
\* role name login puts into the token, NoRole for a token of register,
\* which carries none.
NoSub == 0
NotUuid == -1
NoUser == 0
NoRole == "none"

\* get_current_user refusing a token that carries no role claim
get_current_user_needs_role_claim(token) ==
    IF token.signature # "valid" THEN NoUser
    ELSE IF token.sub = NoSub THEN NoUser
    ELSE IF token.sub = NotUuid THEN NoUser
    ELSE IF token.sub \notin DOMAIN users THEN NoUser
    ELSE IF token.role = NoRole THEN NoUser
    ELSE token.sub

\* get_current_user with the expiry of the token left unverified
get_current_user_accepts_expired(token) ==
    IF token.signature \notin {"valid", "expired"} THEN NoUser
    ELSE IF token.sub = NoSub THEN NoUser
    ELSE IF token.sub = NotUuid THEN NoUser
    ELSE IF token.sub \notin DOMAIN users THEN NoUser
    ELSE token.sub

\* dependencies.py get_current_user: the user the token resolves to, NoUser
\* when it raises credentials_exception (401)
get_current_user(token) ==
    IF token.signature # "valid" THEN NoUser
    ELSE IF token.sub = NoSub THEN NoUser
    ELSE IF token.sub = NotUuid THEN NoUser
    ELSE IF token.sub \notin DOMAIN users THEN NoUser
    ELSE token.sub

\* The response to a request whose credential resolves to no user: the
\* dependency raises before the handler is entered.
unauthenticated(op) ==
    /\ resp' = Response(op, NoUser, 0, 0, HTTP_UNAUTHORIZED)
    /\ UNCHANGED <<store, sess>>

\* rbac.py: role_checker
require_roles(allowed_roles, u) == users[u].role \in allowed_roles

IsAdmin(u) == users[u].role = "ADMIN"

\* -------------------------------------------------------------- pagination
Min(a, b) == IF a < b THEN a ELSE b

\* Number of rows of .offset(skip).limit(limit) over n matching rows.
PageSize(n, skip, limit) == IF n > skip THEN Min(limit, n - skip) ELSE 0

\* start = skip + 1 if num_items > 0 else 0; end = skip + num_items
PaginationMetadata(total, skip, limit, num_items) ==
    [total |-> total, skip |-> skip, limit |-> limit,
     start |-> IF num_items > 0 THEN skip + 1 ELSE 0,
     end |-> skip + num_items]

\* A SELECT without ORDER BY returns the matching rows in an order the
\* store chooses: its page is any PageSize of them.
UnorderedPages(matching, skip, limit) ==
    {rows \in SUBSET matching :
        Cardinality(rows) = PageSize(Cardinality(matching), skip, limit)}

\* .order_by(id).offset(skip).limit(limit)
OrderedPage(matching, skip, limit) ==
    {i \in matching :
        LET rank == Cardinality({j \in matching : j < i}) IN
        rank >= skip /\ rank < skip + limit}

\* ----------------------------------------------------------------- orders
\* Order(...) column defaults
NewOrder(u, rid) ==
    [user_id |-> u, restaurant_id |-> rid, status |-> "CREATED",
     total_amount |-> 0]

\* create_order without the country check
create_order_country_denied_nobody(u, rid) == FALSE

create_order_country_denied(u, rid) ==
    ~IsAdmin(u) /\ restaurants[rid].country_id # users[u].country_id

\* create_order with the country violation answered as an absent restaurant
create_order_code_hides_existence(u, rid) ==
    IF ~require_roles({"ADMIN", "MANAGER", "MEMBER"}, u) THEN HTTP_FORBIDDEN
    ELSE IF rid \notin DOMAIN restaurants THEN HTTP_NOT_FOUND
    ELSE IF create_order_country_denied(u, rid) THEN HTTP_NOT_FOUND
    ELSE HTTP_OK

create_order_code(u, rid) ==
    IF ~require_roles({"ADMIN", "MANAGER", "MEMBER"}, u) THEN HTTP_FORBIDDEN
    ELSE IF rid \notin DOMAIN restaurants THEN HTTP_NOT_FOUND
    ELSE IF create_order_country_denied(u, rid) THEN HTTP_FORBIDDEN
    ELSE HTTP_OK

create_order(u, rid) ==
    LET code == create_order_code(u, rid) IN
    /\ IF code = HTTP_OK
       THEN /\ Len(orders) < MaxOrders
            /\ orders' = Append(orders, NewOrder(u, rid))
            /\ resp' = Response("create_order", u, Len(orders) + 1, rid, code)
       ELSE /\ orders' = orders
            /\ resp' = Response("create_order", u, 0, rid, code)
    /\ UNCHANGED <<users, restaurants, menu_items, order_items,
                   payment_methods, sess>>

\* add_item, the part up to the order's status check (orders.py 197-209)
\* the ownership check without the ADMIN exemption
add_item_not_owner_admin_too(u, order) == order.user_id # u

add_item_not_owner(u, order) == ~IsAdmin(u) /\ order.user_id # u

\* a status check that only turns CANCELLED orders away
add_item_not_created_only_cancelled(order) == order.status = "CANCELLED"

add_item_not_created(order) == order.status # "CREATED"

add_item_order_code(u, oid) ==
    IF ~require_roles({"ADMIN", "MANAGER", "MEMBER"}, u) THEN HTTP_FORBIDDEN
    ELSE IF oid \notin DOMAIN orders THEN HTTP_NOT_FOUND
    ELSE IF add_item_not_owner(u, orders[oid]) THEN HTTP_FORBIDDEN
    ELSE IF add_item_not_created(orders[oid]) THEN HTTP_BAD_REQUEST
    ELSE HTTP_OK

\* a lookup by id alone, whatever is_available says
add_item_menu_code_ignores_availability(mid) ==
    IF mid \notin DOMAIN menu_items THEN HTTP_NOT_FOUND ELSE HTTP_OK

\* add_item, the menu item lookup (orders.py 212-216)
add_item_menu_code(mid) ==
    IF mid \notin DOMAIN menu_items \/ ~menu_items[mid].is_available
    THEN HTTP_NOT_FOUND
    ELSE HTTP_OK

add_item_code(u, oid, mid) ==
    IF add_item_order_code(u, oid) # HTTP_OK THEN add_item_order_code(u, oid)
    ELSE add_item_menu_code(mid)

\* the increment without the quantity
add_item_total_ignores_quantity(total_amount, price, quantity) ==
    total_amount + price

\* order.total_amount += menu_item.price * data.quantity
add_item_total(total_amount, price, quantity) ==
    total_amount + price * quantity

OrderItem(oid, mid, quantity, price) ==
    [order_id |-> oid, menu_item_id |-> mid, quantity |-> quantity,
     price |-> price]

\* db.add(order_item); await db.commit().  The unit of work inserts the new
\* row and writes the columns of the loaded Order whose value differs from
\* the value that was loaded; read_total is the total_amount that the
\* handler's SELECT returned.
add_item_commit(oid, mid, quantity, price, read_total) ==
    LET new_total == add_item_total(read_total, price, quantity) IN
    /\ Len(order_items) < MaxOrderItems
    /\ order_items' = Append(order_items, OrderItem(oid, mid, quantity, price))
    /\ orders' = IF new_total = read_total THEN orders
                 ELSE [orders EXCEPT ![oid].total_amount = new_total]

add_item(u, oid, mid, quantity) ==
    LET code == add_item_code(u, oid, mid) IN
    /\ IF code = HTTP_OK
       THEN add_item_commit(oid, mid, quantity, menu_items[mid].price,
                            orders[oid].total_amount)
       ELSE UNCHANGED <<orders, order_items>>
    /\ resp' = Response("add_item", u, oid, mid, code)
    /\ UNCHANGED <<users, restaurants, menu_items, payment_methods, sess>>

\* checkout_order, the part up to the order's status check (orders.py 257-269)
\* the ownership check without the ADMIN exemption
checkout_not_owner_admin_too(u, order) == order.user_id # u

\* no ownership check at all
checkout_not_owner_nobody(u, order) == FALSE

checkout_not_owner(u, order) == ~IsAdmin(u) /\ order.user_id # u

\* a status check that only turns CANCELLED orders away
checkout_not_created_only_cancelled(order) == order.status = "CANCELLED"

checkout_not_created(order) == order.status # "CREATED"

\* checkout_order looking the order up before the role is checked
checkout_order_code_lookup_first(u, oid) ==
    IF oid \notin DOMAIN orders THEN HTTP_NOT_FOUND
    ELSE IF ~require_roles({"ADMIN", "MANAGER"}, u) THEN HTTP_FORBIDDEN
    ELSE IF checkout_not_owner(u, orders[oid]) THEN HTTP_FORBIDDEN
    ELSE IF checkout_not_created(orders[oid]) THEN HTTP_BAD_REQUEST
    ELSE HTTP_OK

checkout_order_code(u, oid) ==
    IF ~require_roles({"ADMIN", "MANAGER"}, u) THEN HTTP_FORBIDDEN
    ELSE IF oid \notin DOMAIN orders THEN HTTP_NOT_FOUND
    ELSE IF checkout_not_owner(u, orders[oid]) THEN HTTP_FORBIDDEN
    ELSE IF checkout_not_created(orders[oid]) THEN HTTP_BAD_REQUEST
    ELSE HTTP_OK

\* checkout_order, the payment method lookup (orders.py 272-279)
\* a lookup that finds a payment method under every id
checkout_payment_code_always_found(pid) == HTTP_OK

checkout_payment_code(pid) ==
    IF pid \notin DOMAIN payment_methods THEN HTTP_NOT_FOUND ELSE HTTP_OK

checkout_code(u, oid, pid) ==
    IF checkout_order_code(u, oid) # HTTP_OK THEN checkout_order_code(u, oid)
    ELSE checkout_payment_code(pid)

\* order.status = "PLACED"; await db.commit(): the loaded status was
\* CREATED, so the unit of work writes the status column and no other.
checkout_commit(oid) ==
    orders' = [orders EXCEPT ![oid].status = "PLACED"]

checkout_order(u, oid, pid) ==
    LET code == checkout_code(u, oid, pid) IN
    /\ IF code = HTTP_OK
       THEN checkout_commit(oid)
       ELSE UNCHANGED orders
    /\ resp' = Response("checkout", u, oid, pid, code)
    /\ UNCHANGED <<users, restaurants, menu_items, order_items,
                   payment_methods, sess>>

\* cancel_order (orders.py 315-324)
\* a status check that only turns CANCELLED orders away
cancel_not_placed_only_cancelled(order) == order.status = "CANCELLED"

\* a status check that only turns CREATED orders away
cancel_not_placed_only_created(order) == order.status = "CREATED"

cancel_not_placed(order) == order.status # "PLACED"

\* cancel_order with the ownership check of checkout_order
cancel_code_owner_checked(u, oid) ==
    IF ~require_roles({"ADMIN", "MANAGER"}, u) THEN HTTP_FORBIDDEN
    ELSE IF oid \notin DOMAIN orders THEN HTTP_NOT_FOUND
    ELSE IF checkout_not_owner(u, orders[oid]) THEN HTTP_FORBIDDEN
    ELSE IF cancel_not_placed(orders[oid]) THEN HTTP_BAD_REQUEST
    ELSE HTTP_OK

cancel_code(u, oid) ==
    IF ~require_roles({"ADMIN", "MANAGER"}, u) THEN HTTP_FORBIDDEN
    ELSE IF oid \notin DOMAIN orders THEN HTTP_NOT_FOUND
    ELSE IF cancel_not_placed(orders[oid]) THEN HTTP_BAD_REQUEST
    ELSE HTTP_OK

\* order.status = "CANCELLED"; await db.commit(): writes the status column.
cancel_commit(oid) ==
    orders' = [orders EXCEPT ![oid].status = "CANCELLED"]

cancel_order(u, oid) ==
    LET code == cancel_code(u, oid) IN
    /\ IF code = HTTP_OK
       THEN cancel_commit(oid)
       ELSE UNCHANGED orders
    /\ resp' = Response("cancel", u, oid, 0, code)
    /\ UNCHANGED <<users, restaurants, menu_items, order_items,
                   payment_methods, sess>>

\* -------------------------------------------------------------- catalogue
\* toggle_availability (menu_items.py 155-164)
toggle_availability_code(u, mid) ==
    IF ~require_roles({"ADMIN"}, u) THEN HTTP_FORBIDDEN
    ELSE IF mid \notin DOMAIN menu_items THEN HTTP_NOT_FOUND
    ELSE HTTP_OK

\* an update that switches the item off whatever it was
toggle_is_available_switches_off(is_available) == FALSE

\* menu_item.is_available = not menu_item.is_available
toggle_is_available(is_available) == ~is_available

toggle_availability(u, mid) ==
    LET code == toggle_availability_code(u, mid) IN
    /\ menu_items' = IF code = HTTP_OK
                     THEN [menu_items EXCEPT
                             ![mid].is_available =
                                toggle_is_available(menu_items[mid].is_available)]
                     ELSE menu_items
    /\ resp' = Response("toggle_availability", u, mid, 0, code)
    /\ UNCHANGED <<users, restaurants, orders, order_items,
                   payment_methods, sess>>

create_restaurant_code(u, country) ==
    IF ~require_roles({"ADMIN"}, u) THEN HTTP_FORBIDDEN
    ELSE IF country \notin CountryIds THEN HTTP_BAD_REQUEST
    ELSE HTTP_OK

create_restaurant(u, country) ==
    LET code == create_restaurant_code(u, country) IN
    /\ IF code = HTTP_OK
       THEN /\ Len(restaurants) < MaxRestaurants
            /\ restaurants' = Append(restaurants, [country_id |-> country])
       ELSE restaurants' = restaurants
    /\ resp' = Response("create_restaurant", u, 0, country, code)
    /\ UNCHANGED <<users, menu_items, orders, order_items, payment_methods,
                   sess>>

create_menu_item_code(u, rid) ==
    IF ~require_roles({"ADMIN"}, u) THEN HTTP_FORBIDDEN
    ELSE IF rid \notin DOMAIN restaurants THEN HTTP_NOT_FOUND
    ELSE HTTP_OK

\* MenuItem(...): is_available takes the column default
create_menu_item(u, rid, price) ==
    LET code == create_menu_item_code(u, rid) IN
    /\ IF code = HTTP_OK
       THEN /\ Len(menu_items) < MaxMenuItems
            /\ menu_items' = Append(menu_items,
                  [restaurant_id |-> rid, price |-> price, is_available |-> TRUE])
       ELSE menu_items' = menu_items
    /\ resp' = Response("create_menu_item", u, rid, 0, code)
    /\ UNCHANGED <<users, restaurants, orders, order_items, payment_methods,
                   sess>>

\* get_restaurants: the rows the query matches for the caller
get_restaurants_matching(u) ==
    {r \in DOMAIN restaurants :
        IsAdmin(u) \/ restaurants[r].country_id = users[u].country_id}

get_restaurants(u, skip, limit) ==
    /\ IF ~require_roles({"ADMIN", "MANAGER", "MEMBER"}, u)
       THEN resp' = Response("list_restaurants", u, 0, 0, HTTP_FORBIDDEN)
       ELSE \E rows \in UnorderedPages(get_restaurants_matching(u), skip, limit) :
              resp' = ListResponse("list_restaurants", u, 0, rows,
                        PaginationMetadata(
                          Cardinality(get_restaurants_matching(u)),
                          skip, limit, Cardinality(rows)))
    /\ UNCHANGED <<store, sess>>

get_menu_items_country_denied(u, rid) ==
    ~IsAdmin(u) /\ restaurants[rid].country_id # users[u].country_id

get_menu_items_code(u, rid) ==
    IF ~require_roles({"ADMIN", "MANAGER", "MEMBER"}, u) THEN HTTP_FORBIDDEN
    ELSE IF rid \notin DOMAIN restaurants THEN HTTP_NOT_FOUND
    ELSE IF get_menu_items_country_denied(u, rid) THEN HTTP_FORBIDDEN
    ELSE HTTP_OK

get_menu_items_matching(rid) ==
    {m \in DOMAIN menu_items : menu_items[m].restaurant_id = rid}

get_menu_items(u, rid, skip, limit) ==
    LET code == get_menu_items_code(u, rid) IN
    /\ IF code # HTTP_OK
       THEN resp' = Response("list_menu_items", u, rid, 0, code)
       ELSE \E rows \in UnorderedPages(get_menu_items_matching(rid), skip, limit) :
              resp' = ListResponse("list_menu_items", u, rid, rows,
                        PaginationMetadata(
                          Cardinality(get_menu_items_matching(rid)),
                          skip, limit, Cardinality(rows)))
    /\ UNCHANGED <<store, sess>>

\* the restaurant filter taking the place of the country restriction
list_orders_matching_filter_replaces(u, restaurant_id) ==
    {o \in DOMAIN orders :
        IF restaurant_id # 0 THEN orders[o].restaurant_id = restaurant_id
        ELSE IsAdmin(u) \/
             \E r \in DOMAIN restaurants :
                /\ orders[o].restaurant_id = r
                /\ restaurants[r].country_id = users[u].country_id}

\* list_orders: restaurant_id = 0 stands for the absent filter (None).
\* The inner join drops an order whose restaurant row does not match.
list_orders_matching(u, restaurant_id) ==
    {o \in DOMAIN orders :
        /\ IsAdmin(u) \/
             \E r \in DOMAIN restaurants :
                /\ orders[o].restaurant_id = r
                /\ restaurants[r].country_id = users[u].country_id
        /\ restaurant_id # 0 => orders[o].restaurant_id = restaurant_id}

list_orders(u, restaurant_id, skip, limit) ==
    LET matching == list_orders_matching(u, restaurant_id)
        rows == OrderedPage(matching, skip, limit) IN
    /\ IF ~require_roles({"ADMIN", "MANAGER", "MEMBER"}, u)
       THEN resp' = Response("list_orders", u, restaurant_id, 0, HTTP_FORBIDDEN)
       ELSE resp' = ListResponse("list_orders", u, restaurant_id, rows,
                      PaginationMetadata(Cardinality(matching), skip, limit,
                                         Cardinality(rows)))
    /\ UNCHANGED <<store, sess>>

\* ---------------------------------------------------------------- payments
\* A request's boolean as the response records it.
BoolArg(b) == IF b THEN 1 ELSE 0

\* PaymentMethodUpdate.is_default is Optional[bool]: <<>> stands for None,
\* <<b>> for the boolean b.
OptionalBools == {<<>>, <<TRUE>>, <<FALSE>>}

\* PaymentMethodUpdate.provider is Optional[str], in the same way.
OptionalProviders == {<<>>, <<"visa">>, <<"amex">>}

\* The body of an update request
PaymentMethodUpdate(provider, is_default) ==
    [provider |-> provider, is_default |-> is_default]

\* The row add_payment_method inserts: every request registers a card of
\* the same provider and number.
PaymentMethod(u, is_default) ==
    [user_id |-> u, type |-> "card", provider |-> "visa",
     last_four |-> "4242", is_default |-> is_default]

\* an UPDATE that clears no default
clear_defaults_none(pms, rows) == pms

\* update(PaymentMethod).where(user_id == current_user.id)
\*   .values(is_default=False), on the rows the statement matched
clear_defaults(pms, rows) ==
    [i \in DOMAIN pms |->
        IF i \in rows THEN [pms[i] EXCEPT !.is_default = FALSE] ELSE pms[i]]

\* The rows of user u among the first n payment methods.
PaymentsOfUser(u, n) ==
    {i \in DOMAIN payment_methods : i <= n /\ payment_methods[i].user_id = u}

add_payment_method_code(u) ==
    IF ~require_roles({"ADMIN"}, u) THEN HTTP_FORBIDDEN ELSE HTTP_OK

\* db.add(payment); await db.commit(): the transaction's UPDATE, which
\* matched the rows in matched, and its INSERT become visible together.
add_payment_commit(u, is_default, matched) ==
    /\ Len(payment_methods) < MaxPayments
    /\ payment_methods' =
          Append(IF is_default
                 THEN clear_defaults(payment_methods, matched)
                 ELSE payment_methods,
                 PaymentMethod(u, is_default))

add_payment_method(u, is_default) ==
    LET code == add_payment_method_code(u) IN
    /\ IF code = HTTP_OK
       THEN /\ add_payment_commit(u, is_default,
                   PaymentsOfUser(u, Len(payment_methods)))
            /\ resp' = Response("add_payment_method", u,
                                Len(payment_methods) + 1,
                                BoolArg(is_default), code)
       ELSE /\ payment_methods' = payment_methods
            /\ resp' = Response("add_payment_method", u, 0,
                                BoolArg(is_default), code)
    /\ UNCHANGED <<users, restaurants, menu_items, orders, order_items, sess>>

update_payment_method_code(u, pid) ==
    IF ~require_roles({"ADMIN"}, u) THEN HTTP_FORBIDDEN
    ELSE IF pid \notin DOMAIN payment_methods THEN HTTP_NOT_FOUND
    ELSE HTTP_OK

\* the fields of the request that are not None, written to the loaded row
update_payment_fields(payment, data) ==
    [payment EXCEPT
       !.provider = IF data.provider # <<>> THEN data.provider[1] ELSE @,
       !.is_default = IF data.is_default # <<>> THEN data.is_default[1] ELSE @]

\* an update that, like add_payment_method, first clears the defaults of
\* the payment method's owner when the request sets is_default
update_payment_commit_clears_defaults(pms, pid, data) ==
    LET cleared == IF data.is_default = <<TRUE>>
                   THEN clear_defaults(pms, {i \in DOMAIN pms :
                                          pms[i].user_id = pms[pid].user_id})
                   ELSE pms IN
    [cleared EXCEPT ![pid] = update_payment_fields(cleared[pid], data)]

\* await db.commit(): the UPDATE of the one loaded row
update_payment_commit(pms, pid, data) ==
    [pms EXCEPT ![pid] = update_payment_fields(pms[pid], data)]

\* update_payment_method: the fields the request carries are written to
\* the row named by payment_id.
update_payment_method(u, pid, provider, is_default) ==
    LET code == update_payment_method_code(u, pid)
        data == PaymentMethodUpdate(provider, is_default) IN
    /\ payment_methods' =
          IF code = HTTP_OK
          THEN update_payment_commit(payment_methods, pid, data)
          ELSE payment_methods
    /\ resp' = Response("update_payment_method", u, pid, data, code)
    /\ UNCHANGED <<users, restaurants, menu_items, orders, order_items, sess>>

\* get_payments: the query has no WHERE clause
get_payments_matching == DOMAIN payment_methods

get_payments(u, skip, limit) ==
    /\ IF ~require_roles({"ADMIN", "MANAGER", "MEMBER"}, u)
       THEN resp' = Response("list_payments", u, 0, 0, HTTP_FORBIDDEN)
       ELSE \E rows \in UnorderedPages(get_payments_matching, skip, limit) :
              resp' = ListResponse("list_payments", u, 0, rows,
                        PaginationMetadata(Cardinality(get_payments_matching),
                                           skip, limit, Cardinality(rows)))
    /\ UNCHANGED <<store, sess>>

\* ------------------------------------------------- requests run concurrently
\* Each request is a task with a session of its own (dependencies.py get_db).
\* A task yields at its awaits only: every SELECT and the commit.  sess[p]
\* holds what the task p has loaded so far; the store is read committed, a
\* SELECT sees the rows as committed at that moment and the loaded Order is
\* not read again.
Procs == 1..NumProcs

Loaded(op, pc, u, oid, arg, quantity, total_amount, price) ==
    [op |-> op, pc |-> pc, caller |-> u, target |-> oid, arg |-> arg,
     quantity |-> quantity, total_amount |-> total_amount, price |-> price]

\* add_item up to the await of the menu item SELECT
add_item_select_order(p, u, oid, mid, quantity) ==
    LET code == add_item_order_code(u, oid) IN
    /\ sess[p] = Idle
    /\ IF code = HTTP_OK
       THEN /\ sess' = [sess EXCEPT ![p] =
                  Loaded("add_item", "select_menu_item", u, oid, mid, quantity,
                         orders[oid].total_amount, 0)]
            /\ resp' = resp
       ELSE /\ sess' = sess
            /\ resp' = Response("add_item", u, oid, mid, code)
    /\ UNCHANGED store

\* add_item from the menu item SELECT up to the await of the commit
add_item_select_menu_item(p) ==
    LET s == sess[p]
        code == add_item_menu_code(s.arg) IN
    /\ s.op = "add_item" /\ s.pc = "select_menu_item"
    /\ IF code = HTTP_OK
       THEN /\ sess' = [sess EXCEPT ![p].pc = "commit",
                                    ![p].price = menu_items[s.arg].price]
            /\ resp' = resp
       ELSE /\ sess' = [sess EXCEPT ![p] = Idle]
            /\ resp' = Response("add_item", s.caller, s.target, s.arg, code)
    /\ UNCHANGED store

\* add_item's commit and response
add_item_do_commit(p) ==
    LET s == sess[p] IN
    /\ s.op = "add_item" /\ s.pc = "commit"
    /\ add_item_commit(s.target, s.arg, s.quantity, s.price, s.total_amount)
    /\ sess' = [sess EXCEPT ![p] = Idle]
    /\ resp' = Response("add_item", s.caller, s.target, s.arg, HTTP_OK)
    /\ UNCHANGED <<users, restaurants, menu_items, payment_methods>>

\* checkout_order up to the await of the payment method SELECT
checkout_select_order(p, u, oid, pid) ==
    LET code == checkout_order_code(u, oid) IN
    /\ sess[p] = Idle
    /\ IF code = HTTP_OK
       THEN /\ sess' = [sess EXCEPT ![p] =
                  Loaded("checkout", "select_payment", u, oid, pid, 0,
                         orders[oid].total_amount, 0)]
            /\ resp' = resp
       ELSE /\ sess' = sess
            /\ resp' = Response("checkout", u, oid, pid, code)
    /\ UNCHANGED store

\* checkout_order from the payment method SELECT up to the await of the commit
checkout_select_payment(p) ==
    LET s == sess[p]
        code == checkout_payment_code(s.arg) IN
    /\ s.op = "checkout" /\ s.pc = "select_payment"
    /\ IF code = HTTP_OK
       THEN /\ sess' = [sess EXCEPT ![p].pc = "commit"]
            /\ resp' = resp
       ELSE /\ sess' = [sess EXCEPT ![p] = Idle]
            /\ resp' = Response("checkout", s.caller, s.target, s.arg, code)
    /\ UNCHANGED store

\* checkout_order's commit and response
checkout_do_commit(p) ==
    LET s == sess[p] IN
    /\ s.op = "checkout" /\ s.pc = "commit"
    /\ checkout_commit(s.target)
    /\ sess' = [sess EXCEPT ![p] = Idle]
    /\ resp' = Response("checkout", s.caller, s.target, s.arg, HTTP_OK)
    /\ UNCHANGED <<users, restaurants, menu_items, order_items,
                   payment_methods>>

\* cancel_order up to the await of the commit
cancel_select_order(p, u, oid) ==
    LET code == cancel_code(u, oid) IN
    /\ sess[p] = Idle
    /\ IF code = HTTP_OK
       THEN /\ sess' = [sess EXCEPT ![p] =
                  Loaded("cancel", "commit", u, oid, 0, 0,
                         orders[oid].total_amount, 0)]
            /\ resp' = resp
       ELSE /\ sess' = sess
            /\ resp' = Response("cancel", u, oid, 0, code)
    /\ UNCHANGED store

\* cancel_order's commit and response
cancel_do_commit(p) ==
    LET s == sess[p] IN
    /\ s.op = "cancel" /\ s.pc = "commit"
    /\ cancel_commit(s.target)
    /\ sess' = [sess EXCEPT ![p] = Idle]
    /\ resp' = Response("cancel", s.caller, s.target, 0, HTTP_OK)
    /\ UNCHANGED <<users, restaurants, menu_items, order_items,
                   payment_methods>>

\* add_payment_method with is_default set, up to the await of its UPDATE:
\* the statement takes its snapshot, the rows committed so far (target is
\* the highest id among them).
add_payment_begin_update(p, u) ==
    LET code == add_payment_method_code(u) IN
    /\ sess[p] = Idle
    /\ IF code = HTTP_OK
       THEN /\ sess' = [sess EXCEPT ![p] =
                  Loaded("add_payment_method", "update_defaults", u,
                         Len(payment_methods), BoolArg(TRUE), 0, 0, 0)]
            /\ resp' = resp
       ELSE /\ sess' = sess
            /\ resp' = Response("add_payment_method", u, 0, BoolArg(TRUE), code)
    /\ UNCHANGED store

\* The rows a transaction's UPDATE matched: the caller's rows of its snapshot.
MatchedRows(s) == PaymentsOfUser(s.caller, s.target)

\* The UPDATE locks the rows it matched; it waits while a transaction that
\* has not committed yet holds the lock of one of them.
add_payment_update_defaults(p) ==
    LET s == sess[p] IN
    /\ s.op = "add_payment_method" /\ s.pc = "update_defaults"
    /\ \A q \in Procs \ {p} :
          ( sess[q].op = "add_payment_method" /\ sess[q].pc = "commit" )
          => MatchedRows(sess[q]) \cap MatchedRows(s) = {}
    /\ sess' = [sess EXCEPT ![p].pc = "commit"]
    /\ UNCHANGED <<store, resp>>

\* add_payment_method's commit and response
add_payment_do_commit(p) ==
    LET s == sess[p] IN
    /\ s.op = "add_payment_method" /\ s.pc = "commit"
    /\ add_payment_commit(s.caller, TRUE, MatchedRows(s))
    /\ sess' = [sess EXCEPT ![p] = Idle]
    /\ resp' = Response("add_payment_method", s.caller,
                        Len(payment_methods) + 1, BoolArg(TRUE), HTTP_OK)
    /\ UNCHANGED <<users, restaurants, menu_items, orders, order_items>>

\* ------------------------------------------------------------ specification
\* The store once the seed script has run, the three users have registered
\* and the ADMIN has set up two restaurants, one per country, a menu item
\* for each (the second one toggled to unavailable) and a payment method.
Catalogue ==
    /\ restaurants = <<[country_id |-> 1], [country_id |-> 2]>>
    /\ menu_items = <<[restaurant_id |-> 1, price |-> 500, is_available |-> TRUE],
                      [restaurant_id |-> 2, price |-> 250, is_available |-> FALSE]>>
    /\ payment_methods = <<PaymentMethod(1, FALSE)>>

Init ==
    /\ users = RegisteredUsers
    /\ Catalogue
    /\ orders = <<>>
    /\ order_items = <<>>
    /\ resp = NoResp
    /\ sess = [p \in Procs |-> Idle]
    /\ cred = NoToken

\* The ids a request names: every id in use and one that is not.
OrderIds == 1..(Len(orders) + 1)
MenuItemIds == 1..(Len(menu_items) + 1)
RestaurantIds == 1..(Len(restaurants) + 1)
PaymentIds == 1..(Len(payment_methods) + 1)

\* Requests are handled one at a time: the caller reads the response, then
\* the next request comes in.
Next ==
    \/ /\ resp = NoResp /\ UNCHANGED cred
       /\ \E u \in DOMAIN users, rid \in RestaurantIds : create_order(u, rid)
    \/ /\ resp = NoResp /\ UNCHANGED cred
       /\ \E u \in DOMAIN users, oid \in OrderIds, mid \in MenuItemIds,
             q \in Quantities : add_item(u, oid, mid, q)
    \/ /\ resp = NoResp /\ UNCHANGED cred
       /\ \E u \in DOMAIN users, oid \in OrderIds, pid \in PaymentIds :
             checkout_order(u, oid, pid)
    \/ /\ resp = NoResp /\ UNCHANGED cred
       /\ \E u \in DOMAIN users, oid \in OrderIds : cancel_order(u, oid)
    \/ read_response

Spec == Init /\ [][Next]_vars

\* The requests that run concurrently are the ADMIN's, on the orders it
\* created at the first restaurant, with the available menu item and the
\* payment method on file: they pass every check, so they reach their commits.
ConcUsers == {1}
ConcRestaurantIds == {1}
ConcOrderIds == DOMAIN orders
ConcMenuItemIds == {1}
ConcPaymentIds == {1}

\* Requests of up to NumProcs tasks interleaved at their awaits.  create_order
\* awaits between reading the restaurant and its commit, but restaurants
\* never change here, so it is taken in one step.
NextConc ==
    \/ UNCHANGED cred /\ \E u \in ConcUsers, rid \in ConcRestaurantIds :
          create_order(u, rid)
    \/ UNCHANGED cred /\ \E p \in Procs, u \in ConcUsers,
          oid \in ConcOrderIds,
          mid \in ConcMenuItemIds, q \in Quantities :
          add_item_select_order(p, u, oid, mid, q)
    \/ UNCHANGED cred /\ \E p \in Procs : add_item_select_menu_item(p)
    \/ UNCHANGED cred /\ \E p \in Procs : add_item_do_commit(p)
    \/ UNCHANGED cred /\ \E p \in Procs, u \in ConcUsers,
          oid \in ConcOrderIds,
          pid \in ConcPaymentIds : checkout_select_order(p, u, oid, pid)
    \/ UNCHANGED cred /\ \E p \in Procs : checkout_select_payment(p)
    \/ UNCHANGED cred /\ \E p \in Procs : checkout_do_commit(p)
    \/ UNCHANGED cred /\ \E p \in Procs, u \in ConcUsers,
          oid \in ConcOrderIds :
          cancel_select_order(p, u, oid)
    \/ UNCHANGED cred /\ \E p \in Procs : cancel_do_commit(p)

SpecConc == Init /\ [][NextConc]_vars

\* The catalogue and the orders built up from the empty store, and the
\* three list operations.
InitList ==
    /\ users = RegisteredUsers
    /\ restaurants = <<>>
    /\ menu_items = <<>>
    /\ payment_methods = <<>>
    /\ orders = <<>>
    /\ order_items = <<>>
    /\ resp = NoResp
    /\ sess = [p \in Procs |-> Idle]
    /\ cred = NoToken

\* MenuItemCreate.price, already at the column's scale.
ListPrices == {500}
Skips == 0..MaxSkip
Limits == 1..MaxLimit

NextList ==
    \/ /\ resp = NoResp /\ UNCHANGED cred
       /\ \E u \in DOMAIN users, c \in CountryIds : create_restaurant(u, c)
    \/ /\ resp = NoResp /\ UNCHANGED cred
       /\ \E u \in DOMAIN users, rid \in RestaurantIds, price \in ListPrices :
             create_menu_item(u, rid, price)
    \/ /\ resp = NoResp /\ UNCHANGED cred
       /\ \E u \in DOMAIN users, rid \in RestaurantIds : create_order(u, rid)
    \/ /\ resp = NoResp /\ UNCHANGED cred
       /\ \E u \in DOMAIN users, skip \in Skips, limit \in Limits :
             get_restaurants(u, skip, limit)
    \/ /\ resp = NoResp /\ UNCHANGED cred
       /\ \E u \in DOMAIN users, rid \in RestaurantIds, skip \in Skips,
             limit \in Limits : get_menu_items(u, rid, skip, limit)
    \/ /\ resp = NoResp /\ UNCHANGED cred
       /\ \E u \in DOMAIN users, rid \in {0} \cup RestaurantIds, skip \in Skips,
             limit \in Limits : list_orders(u, rid, skip, limit)
    \/ read_response

SpecList == InitList /\ [][NextList]_vars

\* Two ADMINs and a MEMBER have registered; the payment methods are built
\* up from none.
PayUsers ==
    <<[role |-> "ADMIN", country_id |-> 1],
      [role |-> "ADMIN", country_id |-> 2],
      [role |-> "MEMBER", country_id |-> 1]>>

InitPay ==
    /\ users = PayUsers
    /\ restaurants = <<>>
    /\ menu_items = <<>>
    /\ payment_methods = <<>>
    /\ orders = <<>>
    /\ order_items = <<>>
    /\ resp = NoResp
    /\ sess = [p \in Procs |-> Idle]
    /\ cred = NoToken

NextPay ==
    \/ /\ resp = NoResp /\ UNCHANGED cred
       /\ \E u \in DOMAIN users, is_default \in BOOLEAN :
             add_payment_method(u, is_default)
    \/ /\ resp = NoResp /\ UNCHANGED cred
       /\ \E u \in DOMAIN users, pid \in PaymentIds,
             provider \in OptionalProviders, is_default \in OptionalBools :
             update_payment_method(u, pid, provider, is_default)
    \/ /\ resp = NoResp /\ UNCHANGED cred
       /\ \E u \in DOMAIN users, skip \in Skips, limit \in Limits :
             get_payments(u, skip, limit)
    \/ read_response

SpecPay == InitPay /\ [][NextPay]_vars

\* add_payment_method requests of one ADMIN interleaved at their awaits: the
\* ones that set is_default run in three steps, the others have the commit
\* as their only effect.
NextPayConc ==
    \/ UNCHANGED cred /\ \E p \in Procs, u \in ConcUsers :
          add_payment_begin_update(p, u)
    \/ UNCHANGED cred /\ \E p \in Procs : add_payment_update_defaults(p)
    \/ UNCHANGED cred /\ \E p \in Procs : add_payment_do_commit(p)
    \/ UNCHANGED cred /\ \E u \in ConcUsers : add_payment_method(u, FALSE)

SpecPayConc == InitPay /\ [][NextPayConc]_vars

\* The ADMIN's two restaurants are there; menu items are created and
\* toggled, orders are created.
InitToggle ==
    /\ users = RegisteredUsers
    /\ restaurants = <<[country_id |-> 1], [country_id |-> 2]>>
    /\ menu_items = <<>>
    /\ payment_methods = <<>>
    /\ orders = <<>>
    /\ order_items = <<>>
    /\ resp = NoResp
    /\ sess = [p \in Procs |-> Idle]
    /\ cred = NoToken

NextToggle ==
    \/ /\ resp = NoResp /\ UNCHANGED cred
       /\ \E u \in DOMAIN users, rid \in RestaurantIds, price \in ListPrices :
             create_menu_item(u, rid, price)
    \/ /\ resp = NoResp /\ UNCHANGED cred
       /\ \E u \in DOMAIN users, mid \in MenuItemIds :
             toggle_availability(u, mid)
    \/ /\ resp = NoResp /\ UNCHANGED cred
       /\ \E u \in DOMAIN users, rid \in RestaurantIds : create_order(u, rid)
    \/ read_response

SpecToggle == InitToggle /\ [][NextToggle]_vars

\* Orders are created and filled while the ADMIN switches the menu items of
\* the catalogue off and on.
NextAvail ==
    \/ /\ resp = NoResp /\ UNCHANGED cred
       /\ \E u \in DOMAIN users, rid \in RestaurantIds : create_order(u, rid)
    \/ /\ resp = NoResp /\ UNCHANGED cred
       /\ \E u \in DOMAIN users, oid \in OrderIds, mid \in MenuItemIds,
             q \in Quantities : add_item(u, oid, mid, q)
    \/ /\ resp = NoResp /\ UNCHANGED cred
       /\ \E u \in DOMAIN users, mid \in MenuItemIds :
             toggle_availability(u, mid)
    \/ read_response

SpecAvail == Init /\ [][NextAvail]_vars

\* Every protected operation, requested with a bearer token.  The tokens:
\* well-signed ones whose subject is no UUID, is missing, names a registered
\* user or names nobody, and malformed, wrongly signed and expired ones
\* that carry the id of the ADMIN or of the MEMBER.  These are tokens of
\* register, without a role claim; the ADMIN and the MEMBER also hold a
\* token of login each, whose role claim is not the role they have now.
Tokens ==
    [signature : {"valid"}, sub : {NotUuid, NoSub} \cup (1..(Len(users) + 1)),
     role : {NoRole}]
    \cup {[signature |-> "valid", sub |-> 1, role |-> "MEMBER"],
          [signature |-> "valid", sub |-> 3, role |-> "ADMIN"]}
    \cup [signature : {"malformed", "invalid", "expired"}, sub : {1, 3},
          role : {NoRole}]

\* The store when the ADMIN has set up a restaurant in India and a menu item.
InitAccess ==
    /\ users = RegisteredUsers
    /\ restaurants = <<[country_id |-> 1]>>
    /\ menu_items =
          <<[restaurant_id |-> 1, price |-> 500, is_available |-> TRUE]>>
    /\ payment_methods = <<>>
    /\ orders = <<>>
    /\ order_items = <<>>
    /\ resp = NoResp
    /\ sess = [p \in Procs |-> Idle]
    /\ cred = NoToken

\* The requests name the first row of a table or an id that is not in use,
\* a country that exists or one that does not.
AccessCountries == {2, Len(CountryEnum) + 1}
AccessRestaurantIds == {1, Len(restaurants) + 1}
AccessMenuItemIds == {1, Len(menu_items) + 1}
AccessOrderIds == {1, Len(orders) + 1}
AccessPaymentIds == {1, Len(payment_methods) + 1}
AccessQuantities == {2}
AccessSkips == {0}
AccessLimits == {1}
AccessProviders == {<<>>}

\* require_roles depends on get_current_user: the token is resolved first,
\* then the role is checked, then the handler's body runs.
authenticated(token, op, handler) ==
    IF get_current_user(token) = NoUser THEN unauthenticated(op) ELSE handler

\* The protected operations as requested with a bearer token
request_create_restaurant(token) ==
    \E c \in AccessCountries :
        authenticated(token, "create_restaurant",
            create_restaurant(get_current_user(token), c))

request_list_restaurants(token) ==
    \E skip \in AccessSkips, limit \in AccessLimits :
        authenticated(token, "list_restaurants",
            get_restaurants(get_current_user(token), skip, limit))

request_create_menu_item(token) ==
    \E rid \in AccessRestaurantIds, price \in ListPrices :
        authenticated(token, "create_menu_item",
            create_menu_item(get_current_user(token), rid, price))

request_list_menu_items(token) ==
    \E rid \in AccessRestaurantIds, skip \in AccessSkips,
       limit \in AccessLimits :
        authenticated(token, "list_menu_items",
            get_menu_items(get_current_user(token), rid, skip, limit))

request_toggle_availability(token) ==
    \E mid \in AccessMenuItemIds :
        authenticated(token, "toggle_availability",
            toggle_availability(get_current_user(token), mid))

request_create_order(token) ==
    \E rid \in AccessRestaurantIds :
        authenticated(token, "create_order",
            create_order(get_current_user(token), rid))

request_list_orders(token) ==
    \E rid \in {0} \cup AccessRestaurantIds, skip \in AccessSkips,
       limit \in AccessLimits :
        authenticated(token, "list_orders",
            list_orders(get_current_user(token), rid, skip, limit))

request_add_item(token) ==
    \E oid \in AccessOrderIds, mid \in AccessMenuItemIds,
       q \in AccessQuantities :
        authenticated(token, "add_item",
            add_item(get_current_user(token), oid, mid, q))

request_checkout(token) ==
    \E oid \in AccessOrderIds, pid \in AccessPaymentIds :
        authenticated(token, "checkout",
            checkout_order(get_current_user(token), oid, pid))

request_cancel(token) ==
    \E oid \in AccessOrderIds :
        authenticated(token, "cancel",
            cancel_order(get_current_user(token), oid))

request_add_payment_method(token) ==
    authenticated(token, "add_payment_method",
        add_payment_method(get_current_user(token), TRUE))

request_list_payments(token) ==
    \E skip \in AccessSkips, limit \in AccessLimits :
        authenticated(token, "list_payments",
            get_payments(get_current_user(token), skip, limit))

request_update_payment_method(token) ==
    \E pid \in AccessPaymentIds, provider \in AccessProviders,
       is_default \in OptionalBools :
        authenticated(token, "update_payment_method",
            update_payment_method(get_current_user(token), pid, provider,
                is_default))

NextAccess ==
    \/ /\ resp = NoResp
       /\ \E t \in Tokens : cred' = t /\ request_create_restaurant(t)
    \/ /\ resp = NoResp
       /\ \E t \in Tokens : cred' = t /\ request_list_restaurants(t)
    \/ /\ resp = NoResp
       /\ \E t \in Tokens : cred' = t /\ request_create_menu_item(t)
    \/ /\ resp = NoResp
       /\ \E t \in Tokens : cred' = t /\ request_list_menu_items(t)
    \/ /\ resp = NoResp
       /\ \E t \in Tokens : cred' = t /\ request_toggle_availability(t)
    \/ /\ resp = NoResp
       /\ \E t \in Tokens : cred' = t /\ request_create_order(t)
    \/ /\ resp = NoResp
       /\ \E t \in Tokens : cred' = t /\ request_list_orders(t)
    \/ /\ resp = NoResp
       /\ \E t \in Tokens : cred' = t /\ request_add_item(t)
    \/ /\ resp = NoResp
       /\ \E t \in Tokens : cred' = t /\ request_checkout(t)
    \/ /\ resp = NoResp
       /\ \E t \in Tokens : cred' = t /\ request_cancel(t)
    \/ /\ resp = NoResp
       /\ \E t \in Tokens : cred' = t /\ request_add_payment_method(t)
    \/ /\ resp = NoResp
       /\ \E t \in Tokens : cred' = t /\ request_list_payments(t)
    \/ /\ resp = NoResp
       /\ \E t \in Tokens : cred' = t /\ request_update_payment_method(t)
    \/ read_response

SpecAccess == InitAccess /\ [][NextAccess]_vars

\* ================================================================== claims
RECURSIVE ItemsSumUpTo(_, _)
ItemsSumUpTo(o, n) ==
    IF n = 0 THEN 0
    ELSE ItemsSumUpTo(o, n - 1) +
         (IF order_items[n].order_id = o
          THEN order_items[n].price * order_items[n].quantity ELSE 0)

\* Sum of price * quantity over the OrderItems of order o
ItemsSum(o) == ItemsSumUpTo(o, Len(order_items))

ItemsOf(o) == {i \in DOMAIN order_items : order_items[i].order_id = o}

\* C1: with requests handled one at a time, every order's total_amount
\* equals the sum of price * quantity over its OrderItems.
C1_TotalIsSumOfItems ==
    \A o \in DOMAIN orders : orders[o].total_amount = ItemsSum(o)

\* An order that two successful add_item calls have filled.
C1_Witness ==
    /\ resp.op = "add_item" /\ resp.code = HTTP_OK
    /\ Cardinality(ItemsOf(resp.target)) = 2
    /\ orders[resp.target].total_amount # 0

\* C2: an order starts in CREATED and its status changes only by
\* CREATED -> PLACED, which a checkout makes, or PLACED -> CANCELLED, which
\* a cancel makes; nothing leads back to CREATED or out of CANCELLED.
C2_StatusMoves ==
    [][ /\ \A o \in DOMAIN orders :
             /\ o \in DOMAIN orders'
             /\ \/ orders'[o].status = orders[o].status
                \/ /\ orders[o].status = "CREATED"
                   /\ orders'[o].status = "PLACED"
                   /\ resp'.op = "checkout" /\ resp'.target = o
                \/ /\ orders[o].status = "PLACED"
                   /\ orders'[o].status = "CANCELLED"
                   /\ resp'.op = "cancel" /\ resp'.target = o
        /\ \A o \in DOMAIN orders' \ DOMAIN orders :
             orders'[o].status = "CREATED" /\ resp'.op = "create_order"
      ]_vars

\* An order that went all the way to CANCELLED.
C2_Witness ==
    /\ resp.op = "cancel" /\ resp.code = HTTP_OK
    /\ orders[resp.target].status = "CANCELLED"

\* C3: when add_item requests on one order run concurrently, the stored
\* total_amount of an order that has items equals the sum of
\* price * quantity over them after every commit.
C3_ConcurrentTotalIsSum ==
    \A o \in DOMAIN orders :
        ItemsOf(o) # {} => orders[o].total_amount = ItemsSum(o)

\* C4: an OrderItem row is committed only while the stored status of its
\* order is CREATED, whatever checkout or cancel ran in between.
C4_ItemsOnlyWhileCreated ==
    [][ Len(order_items') > Len(order_items) =>
          orders[order_items'[Len(order_items')].order_id].status = "CREATED"
      ]_vars

IsOwner(u, o) == orders[o].user_id = u

\* C5 as stated: add_item on an existing PLACED or CANCELLED order answers
\* InvalidState (400) for every caller, owner or not, and leaves the
\* order's items and total_amount as they were.
C5_FinalizedAlwaysInvalidState ==
    [][ ( /\ resp'.op = "add_item"
          /\ resp'.target \in DOMAIN orders
          /\ orders[resp'.target].status \in {"PLACED", "CANCELLED"} )
        => ( /\ resp'.code = HTTP_BAD_REQUEST
             /\ UNCHANGED <<orders, order_items>> )
      ]_vars

\* C5 amended: add_item on an existing PLACED or CANCELLED order always
\* fails and leaves the order's items and total_amount as they were; the
\* answer is InvalidState (400) when the caller is an ADMIN or the order's
\* owner, whatever the role, and Forbidden (403) when the caller is a
\* non-ADMIN who does not own the order.
C5_FinalizedAddItemFails ==
    [][ ( /\ resp'.op = "add_item"
          /\ resp'.target \in DOMAIN orders
          /\ orders[resp'.target].status \in {"PLACED", "CANCELLED"} )
        => ( /\ resp'.code =
                  IF IsAdmin(resp'.caller) \/ IsOwner(resp'.caller, resp'.target)
                  THEN HTTP_BAD_REQUEST ELSE HTTP_FORBIDDEN
             /\ UNCHANGED <<orders, order_items>> )
      ]_vars

\* The MEMBER who owns a PLACED order is refused with 400.
C5_Witness ==
    /\ resp.op = "add_item" /\ resp.code = HTTP_BAD_REQUEST
    /\ users[resp.caller].role = "MEMBER"
    /\ orders[resp.target].status = "PLACED"

CheckoutAllowed(u, o) ==
    /\ users[u].role \in {"ADMIN", "MANAGER"}
    /\ IsAdmin(u) \/ IsOwner(u, o)

\* C6: a checkout succeeds only on a CREATED order and leaves it PLACED;
\* on an order that has left CREATED every checkout by a caller allowed to
\* check it out answers InvalidState (400) and changes neither the status
\* nor the total_amount.
C6_CheckoutOnce ==
    [][ ( resp'.op = "checkout" /\ resp'.target \in DOMAIN orders )
        => ( /\ resp'.code = HTTP_OK =>
                  /\ orders[resp'.target].status = "CREATED"
                  /\ orders'[resp'.target].status = "PLACED"
             /\ ( /\ orders[resp'.target].status # "CREATED"
                  /\ CheckoutAllowed(resp'.caller, resp'.target) )
                => ( resp'.code = HTTP_BAD_REQUEST /\ UNCHANGED orders ) )
      ]_vars

\* A second checkout of a PLACED order by its MANAGER owner is refused.
C6_Witness ==
    /\ resp.op = "checkout" /\ resp.code = HTTP_BAD_REQUEST
    /\ users[resp.caller].role = "MANAGER"
    /\ orders[resp.target].status = "PLACED"

\* C7: a cancel by an ADMIN or a MANAGER succeeds exactly when the order
\* exists and is PLACED, and then leaves it CANCELLED; on a CREATED or
\* CANCELLED order it answers InvalidState (400) and the status stays.
C7_CancelOnlyPlaced ==
    [][ ( /\ resp'.op = "cancel"
          /\ users[resp'.caller].role \in {"ADMIN", "MANAGER"} )
        => ( /\ resp'.code = HTTP_OK <=>
                  ( /\ resp'.target \in DOMAIN orders
                    /\ orders[resp'.target].status = "PLACED" )
             /\ resp'.code = HTTP_OK =>
                  orders'[resp'.target].status = "CANCELLED"
             /\ ( /\ resp'.target \in DOMAIN orders
                  /\ orders[resp'.target].status \in {"CREATED", "CANCELLED"} )
                => ( resp'.code = HTTP_BAD_REQUEST /\ UNCHANGED orders ) )
      ]_vars

\* A MANAGER's cancel of a CREATED order is refused.
C7_Witness ==
    /\ resp.op = "cancel" /\ resp.code = HTTP_BAD_REQUEST
    /\ users[resp.caller].role = "MANAGER"
    /\ orders[resp.target].status = "CREATED"

\* C8: add_item and checkout on an existing order answer Forbidden (403) to
\* a non-ADMIN caller who does not own it and leave the order and its items
\* as they were; an ADMIN never gets Forbidden from them.
C8_OwnershipRule ==
    [][ ( /\ resp'.op \in {"add_item", "checkout"}
          /\ resp'.target \in DOMAIN orders )
        => ( /\ ( ~IsAdmin(resp'.caller)
                  /\ ~IsOwner(resp'.caller, resp'.target) )
                => ( /\ resp'.code = HTTP_FORBIDDEN
                     /\ UNCHANGED <<orders, order_items>> )
             /\ IsAdmin(resp'.caller) => resp'.code # HTTP_FORBIDDEN )
      ]_vars

\* The MANAGER is refused on a CREATED order of another user.
C8_Witness ==
    /\ resp.op = "add_item" /\ resp.code = HTTP_FORBIDDEN
    /\ users[resp.caller].role = "MANAGER"
    /\ resp.target \in DOMAIN orders
    /\ ~IsOwner(resp.caller, resp.target)
    /\ orders[resp.target].status = "CREATED"

CountryOfRestaurant(r) == restaurants[r].country_id

\* C9: a list answered to a non-ADMIN caller holds only restaurants of the
\* caller's country, menu items of such restaurants and orders placed at
\* such restaurants, whatever restaurant the filter of list_orders names.
C9_ListsStayInCountry ==
    ( resp.op \in {"list_restaurants", "list_menu_items", "list_orders"}
      /\ resp.code = HTTP_OK /\ ~IsAdmin(resp.caller) )
    => /\ resp.op = "list_restaurants" =>
            \A r \in resp.rows :
               CountryOfRestaurant(r) = users[resp.caller].country_id
       /\ resp.op = "list_menu_items" =>
            \A m \in resp.rows :
               CountryOfRestaurant(menu_items[m].restaurant_id)
                 = users[resp.caller].country_id
       /\ resp.op = "list_orders" =>
            \A o \in resp.rows :
               CountryOfRestaurant(orders[o].restaurant_id)
                 = users[resp.caller].country_id

\* A non-ADMIN lists the orders of a restaurant of another country that has
\* an order, and gets none of them.
C9_Witness ==
    /\ resp.op = "list_orders" /\ resp.code = HTTP_OK
    /\ ~IsAdmin(resp.caller)
    /\ resp.target \in DOMAIN restaurants
    /\ CountryOfRestaurant(resp.target) # users[resp.caller].country_id
    /\ \E o \in DOMAIN orders : orders[o].restaurant_id = resp.target
    /\ resp.rows = {}

\* C10: create_order answers NotFound (404) for an absent restaurant and
\* Forbidden (403) for an existing restaurant of a country other than the
\* non-ADMIN caller's; neither creates an order; an ADMIN is not refused
\* for the country.
C10_CreateOrderErrors ==
    [][ resp'.op = "create_order"
        => ( /\ resp'.arg \notin DOMAIN restaurants =>
                  resp'.code = HTTP_NOT_FOUND
             /\ ( /\ resp'.arg \in DOMAIN restaurants
                  /\ ~IsAdmin(resp'.caller)
                  /\ CountryOfRestaurant(resp'.arg)
                       # users[resp'.caller].country_id )
                => resp'.code = HTTP_FORBIDDEN
             /\ resp'.code # HTTP_OK => UNCHANGED <<orders, order_items>>
             /\ ( IsAdmin(resp'.caller) /\ resp'.arg \in DOMAIN restaurants )
                => ( resp'.code = HTTP_OK /\ Len(orders') = Len(orders) + 1 ) )
      ]_vars

\* The MANAGER in America is refused an order at a restaurant in India.
C10_Witness ==
    /\ resp.op = "create_order" /\ resp.code = HTTP_FORBIDDEN
    /\ users[resp.caller].role = "MANAGER"
    /\ CountryEnum[users[resp.caller].country_id] = "America"
    /\ CountryEnum[CountryOfRestaurant(resp.arg)] = "India"
    /\ orders = <<>>

CountryOfMenuItem(m) == CountryOfRestaurant(menu_items[m].restaurant_id)

\* C11: a successful add_item by a non-ADMIN caller adds only a menu item
\* whose restaurant is in the caller's own country.
C11_AddItemStaysInCountry ==
    [][ ( /\ resp'.op = "add_item" /\ resp'.code = HTTP_OK
          /\ ~IsAdmin(resp'.caller) )
        => CountryOfMenuItem(resp'.arg) = users[resp'.caller].country_id
      ]_vars

\* C18: a checkout of a CREATED order by a caller allowed to check it out
\* answers NotFound (404) exactly when no payment method has the given id,
\* and then the order stays as it was; when a payment method has the id the
\* checkout succeeds and the order is PLACED, whoever owns the payment
\* method.
C18_CheckoutPaymentLookup ==
    [][ ( /\ resp'.op = "checkout"
          /\ resp'.target \in DOMAIN orders
          /\ orders[resp'.target].status = "CREATED"
          /\ CheckoutAllowed(resp'.caller, resp'.target) )
        => ( /\ resp'.code = HTTP_NOT_FOUND <=>
                  resp'.arg \notin DOMAIN payment_methods
             /\ resp'.code = HTTP_NOT_FOUND => UNCHANGED orders
             /\ resp'.arg \in DOMAIN payment_methods =>
                  /\ resp'.code = HTTP_OK
                  /\ orders'[resp'.target].status = "PLACED" )
      ]_vars

\* The MANAGER checked out its own order with the ADMIN's payment method.
C18_Witness ==
    /\ resp.op = "checkout" /\ resp.code = HTTP_OK
    /\ users[resp.caller].role = "MANAGER"
    /\ IsOwner(resp.caller, resp.target)
    /\ payment_methods[resp.arg].user_id # resp.caller
    /\ orders[resp.target].status = "PLACED"

\* C19: the outcome of a cancel depends only on the caller's role and on the
\* order's existence and status: an ADMIN or a MANAGER cancels every PLACED
\* order, whoever owns it and wherever its restaurant is.
C19_CancelIgnoresOwner ==
    [][ resp'.op = "cancel"
        => ( /\ resp'.code =
                  IF users[resp'.caller].role \notin {"ADMIN", "MANAGER"}
                  THEN HTTP_FORBIDDEN
                  ELSE IF resp'.target \notin DOMAIN orders
                  THEN HTTP_NOT_FOUND
                  ELSE IF orders[resp'.target].status # "PLACED"
                  THEN HTTP_BAD_REQUEST
                  ELSE HTTP_OK
             /\ resp'.code = HTTP_OK =>
                  orders' = [orders EXCEPT ![resp'.target].status = "CANCELLED"]
             /\ resp'.code # HTTP_OK => UNCHANGED orders )
      ]_vars

\* The MANAGER in America cancelled an order of another user at a restaurant
\* in India.
C19_Witness ==
    /\ resp.op = "cancel" /\ resp.code = HTTP_OK
    /\ users[resp.caller].role = "MANAGER"
    /\ ~IsOwner(resp.caller, resp.target)
    /\ CountryOfRestaurant(orders[resp.target].restaurant_id)
         # users[resp.caller].country_id
    /\ orders[resp.target].status = "CANCELLED"

\* The default payment methods of user u among the rows pms
DefaultsIn(pms, u) ==
    {i \in DOMAIN pms : pms[i].user_id = u /\ pms[i].is_default}

\* C14: after any sequence of add_payment_method and update_payment_method
\* calls every user has at most one payment method with is_default set.
C14_AtMostOneDefault ==
    \A u \in DOMAIN users : Cardinality(DefaultsIn(payment_methods, u)) <= 1

\* C15: right after a successful add_payment_method with is_default set the
\* new payment method is the caller's only default, and the payment methods
\* of the other users are as they were.
C15_NewDefaultIsTheOnlyOne ==
    [][ ( /\ resp'.op = "add_payment_method" /\ resp'.code = HTTP_OK
          /\ resp'.arg = BoolArg(TRUE) )
        => ( /\ DOMAIN payment_methods' = 1..(Len(payment_methods) + 1)
             /\ resp'.target = Len(payment_methods')
             /\ payment_methods'[resp'.target].user_id = resp'.caller
             /\ DefaultsIn(payment_methods', resp'.caller) = {resp'.target}
             /\ \A i \in DOMAIN payment_methods :
                  payment_methods[i].user_id # resp'.caller
                  => payment_methods'[i] = payment_methods[i] )
      ]_vars

\* The caller's earlier payment method is no default any more while another
\* ADMIN's default stays.
C15_Witness ==
    /\ resp.op = "add_payment_method" /\ resp.code = HTTP_OK
    /\ resp.arg = BoolArg(TRUE)
    /\ \E i \in DOMAIN payment_methods :
          /\ i # resp.target
          /\ payment_methods[i].user_id = resp.caller
    /\ \E v \in DOMAIN users :
          v # resp.caller /\ DefaultsIn(payment_methods, v) # {}

\* C16: whatever way add_payment_method requests interleave, every commit
\* leaves each user with at most one default, and a commit that clears a
\* user's default brings the new default with it.
C16_AddPaymentAtomic ==
    [][ payment_methods' # payment_methods
        => \A u \in DOMAIN users :
             /\ Cardinality(DefaultsIn(payment_methods', u)) <= 1
             /\ ( DefaultsIn(payment_methods, u)
                    \ DefaultsIn(payment_methods', u) # {} )
                => Len(payment_methods') \in DefaultsIn(payment_methods', u)
      ]_vars

ListOps ==
    {"list_restaurants", "list_menu_items", "list_orders", "list_payments"}

\* The rows that match the request of the list response r
MatchingRows(r) ==
    CASE r.op = "list_restaurants" -> get_restaurants_matching(r.caller)
      [] r.op = "list_menu_items" -> get_menu_items_matching(r.target)
      [] r.op = "list_orders" -> list_orders_matching(r.caller, r.target)
      [] r.op = "list_payments" -> get_payments_matching

Max(a, b) == IF a > b THEN a ELSE b

\* C17: a list answered over N matching rows has total = N, holds
\* min(limit, max(N - skip, 0)) of the matching rows, and has start = 0 and
\* end = 0 when the page is empty, else start = skip + 1 and
\* end = skip + the number of rows returned.
C17_Pagination ==
    ( resp.op \in ListOps /\ resp.code = HTTP_OK )
    => LET N == Cardinality(MatchingRows(resp))
           n == Cardinality(resp.rows)
           page == resp.page IN
       /\ resp.rows \subseteq MatchingRows(resp)
       /\ page.total = N
       /\ n = Min(page.limit, Max(N - page.skip, 0))
       /\ IF n = 0
          THEN page.start = 0 /\ page.end = 0
          ELSE page.start = page.skip + 1 /\ page.end = page.skip + n

\* C20: a successful toggle inverts is_available of the named menu item and
\* changes nothing else, and the same update applied to what it left gives
\* back the menu items as they were; an ADMIN's toggle of an absent menu
\* item answers NotFound (404) and changes nothing.
C20_ToggleIsInvolution ==
    [][ resp'.op = "toggle_availability"
        => LET t == resp'.target IN
           /\ ( IsAdmin(resp'.caller) /\ t \notin DOMAIN menu_items )
              => ( resp'.code = HTTP_NOT_FOUND /\ UNCHANGED store )
           /\ resp'.code = HTTP_OK
              => ( /\ t \in DOMAIN menu_items
                   /\ menu_items' =
                        [menu_items EXCEPT
                           ![t].is_available = ~menu_items[t].is_available]
                   /\ [menu_items' EXCEPT
                         ![t].is_available =
                            toggle_is_available(menu_items'[t].is_available)]
                        = menu_items
                   /\ UNCHANGED <<users, restaurants, orders, order_items,
                                  payment_methods>> )
      ]_vars

\* A menu item is available again after its second toggle, next to an
\* item that was left alone and an order.
C20_Witness ==
    /\ resp.op = "toggle_availability" /\ resp.code = HTTP_OK
    /\ menu_items[resp.target].is_available
    /\ Len(menu_items) = 2
    /\ orders # <<>>

\* The roles an operation lets in
AllowedRoles(op) ==
    CASE op \in {"create_restaurant", "create_menu_item",
                 "toggle_availability", "add_payment_method",
                 "update_payment_method"} -> {"ADMIN"}
      [] op \in {"checkout", "cancel"} -> {"ADMIN", "MANAGER"}
      [] OTHER -> {"ADMIN", "MANAGER", "MEMBER"}

\* C12: a request of an authenticated caller whose role the operation does
\* not let in is answered Forbidden (403), whatever else is wrong with the
\* request, and leaves the store as it was.
C12_RoleGate ==
    [][ ( /\ resp'.op # "none"
          /\ resp'.caller # NoUser
          /\ users[resp'.caller].role \notin AllowedRoles(resp'.op) )
        => ( resp'.code = HTTP_FORBIDDEN /\ UNCHANGED store )
      ]_vars

\* The MEMBER's checkout of an order that does not exist is refused for the
\* role, not for the order.
C12_Witness ==
    /\ resp.op = "checkout" /\ resp.code = HTTP_FORBIDDEN
    /\ users[resp.caller].role = "MEMBER"
    /\ resp.target \notin DOMAIN orders
    /\ orders # <<>> /\ payment_methods # <<>>

\* The credentials get_current_user has to turn away
BadCredential(token) ==
    \/ token.signature \in {"malformed", "invalid", "expired"}
    \/ token.sub \in {NoSub, NotUuid}
    \/ token.sub \notin DOMAIN users

\* C13: a request of a protected operation whose token is malformed, wrongly
\* signed or expired, has no subject or names no registered user is
\* answered Unauthenticated (401), also where the role of the user it names
\* would be refused, and leaves the store as it was.
C13_Unauthenticated ==
    [][ ( resp'.op # "none" /\ BadCredential(cred') )
        => ( resp'.code = HTTP_UNAUTHORIZED /\ UNCHANGED store )
      ]_vars

\* An expired token of the MEMBER on an ADMIN-only operation: 401, not 403.
C13_Witness ==
    /\ resp.op = "create_restaurant" /\ resp.code = HTTP_UNAUTHORIZED
    /\ cred.signature = "expired"
    /\ users[cred.sub].role = "MEMBER"
    /\ orders # <<>>

\* C22: every OrderItem that is stored has a quantity of at least 1.
C22_QuantityPositive ==
    \A i \in DOMAIN order_items : order_items[i].quantity >= 1

\* C23: an order's total_amount is 0 when the order is created, no step
\* makes it smaller, and so it is never negative.
C23_TotalNeverDecreases ==
    [][ /\ \A o \in DOMAIN orders :
             /\ orders'[o].total_amount >= orders[o].total_amount
             /\ orders'[o].total_amount >= 0
        /\ \A o \in DOMAIN orders' \ DOMAIN orders :
             orders'[o].total_amount = 0
      ]_vars

\* The OrderItems of order o among the rows items
ItemsIn(items, o) == {i \in DOMAIN items : items[i].order_id = o}

\* C24: once an order is PLACED or CANCELLED, no later commit changes its
\* total_amount or its set of OrderItems, whatever requests run
\* concurrently.
C24_FinalAfterCheckout ==
    [][ \A o \in DOMAIN orders :
          orders[o].status \in {"PLACED", "CANCELLED"}
          => /\ orders'[o].total_amount = orders[o].total_amount
             /\ ItemsIn(order_items', o) = ItemsIn(order_items, o)
      ]_vars

\* C27: once CANCELLED is committed for an order, no later commit changes
\* its stored status, whatever checkout and cancel requests interleave.
C27_CancelledIsTerminal ==
    [][ \A o \in DOMAIN orders :
          orders[o].status = "CANCELLED" => orders'[o].status = "CANCELLED"
      ]_vars

\* C28: at most one checkout per order returns success: a checkout that
\* commits and answers success finds the order still CREATED, that is, not
\* yet checked out with success by another request.
C28_OneCheckoutSucceeds ==
    [][ \A p \in Procs :
          ( /\ sess[p].op = "checkout" /\ sess[p].pc = "commit"
            /\ sess'[p] = Idle
            /\ resp'.op = "checkout" /\ resp'.code = HTTP_OK )
          => orders[sess[p].target].status = "CREATED"
      ]_vars

\* C30: an order owned by a MEMBER becomes PLACED only by the checkout of
\* an ADMIN.
C30_MemberOrderNeedsAdmin ==
    [][ \A o \in DOMAIN orders :
          ( /\ users[orders[o].user_id].role = "MEMBER"
            /\ orders[o].status # "PLACED"
            /\ orders'[o].status = "PLACED" )
          => ( /\ resp'.op = "checkout" /\ resp'.target = o
               /\ resp'.code = HTTP_OK
               /\ IsAdmin(resp'.caller) )
      ]_vars

\* The MEMBER's order is PLACED, by the ADMIN's checkout.
C30_Witness ==
    /\ resp.op = "checkout" /\ resp.code = HTTP_OK
    /\ users[orders[resp.target].user_id].role = "MEMBER"
    /\ orders[resp.target].status = "PLACED"
    /\ IsAdmin(resp.caller)

\* C26: the steps of the order scenario succeed one after the other.  A
\* MEMBER's create_order at a restaurant of its country gives a CREATED
\* order with total 0; its add_item of an available menu item adds
\* price * quantity to the total (2 * 5.00 = 10.00); a checkout with an
\* existing payment method gives PLACED; a cancel then gives CANCELLED.
\* The checkout is an ADMIN's and the cancel an ADMIN's or a MANAGER's:
\* require_roles refuses the MEMBER both.
C26_ScenarioSteps ==
    [][ LET u == resp'.caller
            o == resp'.target IN
        /\ ( /\ resp'.op = "create_order"
             /\ users[u].role = "MEMBER"
             /\ resp'.arg \in DOMAIN restaurants
             /\ CountryOfRestaurant(resp'.arg) = users[u].country_id )
           => ( /\ resp'.code = HTTP_OK
                /\ orders' = Append(orders,
                     [user_id |-> u, restaurant_id |-> resp'.arg,
                      status |-> "CREATED", total_amount |-> 0]) )
        /\ ( /\ resp'.op = "add_item"
             /\ o \in DOMAIN orders
             /\ users[u].role = "MEMBER" /\ IsOwner(u, o)
             /\ orders[o].status = "CREATED"
             /\ resp'.arg \in DOMAIN menu_items
             /\ menu_items[resp'.arg].is_available )
           => ( /\ resp'.code = HTTP_OK
                /\ Len(order_items') = Len(order_items) + 1
                /\ LET item == order_items'[Len(order_items')] IN
                   /\ item.order_id = o /\ item.menu_item_id = resp'.arg
                   /\ item.price = menu_items[resp'.arg].price
                   /\ orders'[o].total_amount =
                        orders[o].total_amount + item.price * item.quantity
                   /\ ( item.quantity = 2 /\ item.price = 500 )
                      => orders'[o].total_amount
                           = orders[o].total_amount + 1000 )
        /\ ( /\ resp'.op = "checkout"
             /\ o \in DOMAIN orders
             /\ IsAdmin(u)
             /\ orders[o].status = "CREATED"
             /\ resp'.arg \in DOMAIN payment_methods )
           => ( /\ resp'.code = HTTP_OK
                /\ orders' = [orders EXCEPT ![o].status = "PLACED"] )
        /\ ( /\ resp'.op = "cancel"
             /\ o \in DOMAIN orders
             /\ users[u].role \in {"ADMIN", "MANAGER"}
             /\ orders[o].status = "PLACED" )
           => ( /\ resp'.code = HTTP_OK
                /\ orders' = [orders EXCEPT ![o].status = "CANCELLED"] )
      ]_vars

\* The scenario's end: the order of the MEMBER in India at the restaurant
\* in India, with its one item of quantity 2 at 5.00 and total 10.00, is
\* CANCELLED.
C26_Witness ==
    /\ resp.op = "cancel" /\ resp.code = HTTP_OK
    /\ LET order == orders[resp.target] IN
       /\ users[order.user_id].role = "MEMBER"
       /\ CountryEnum[users[order.user_id].country_id] = "India"
       /\ CountryEnum[CountryOfRestaurant(order.restaurant_id)] = "India"
       /\ order.status = "CANCELLED"
       /\ order.total_amount = 1000
    /\ Len(order_items) = 1
    /\ order_items[1].order_id = resp.target
    /\ order_items[1].quantity = 2 /\ order_items[1].price = 500

\* C25: add_item on a CREATED order by its owner or an ADMIN answers 404
\* and leaves orders and order items as they are when the menu item does
\* not exist or is unavailable at the time of the call; when the item is
\* available at the time of the call -- also after having been unavailable
\* -- it is added.
C25_UnavailableItemNotAdded ==
    [][ LET u == resp'.caller
            o == resp'.target
            m == resp'.arg IN
        ( /\ resp'.op = "add_item"
          /\ o \in DOMAIN orders
          /\ orders[o].status = "CREATED"
          /\ IsAdmin(u) \/ IsOwner(u, o) )
        => IF m \notin DOMAIN menu_items \/ ~menu_items[m].is_available
           THEN /\ resp'.code = HTTP_NOT_FOUND
                /\ orders' = orders
                /\ order_items' = order_items
           ELSE /\ resp'.code = HTTP_OK
                /\ Len(order_items') = Len(order_items) + 1
                /\ order_items'[Len(order_items')].order_id = o
                /\ order_items'[Len(order_items')].menu_item_id = m
      ]_vars

\* Menu item 1 was added while available and is refused with 404 now that
\* it is switched off; menu item 2, unavailable at first, was added after
\* it had been switched on.
C25_Witness ==
    /\ resp.op = "add_item" /\ resp.code = HTTP_NOT_FOUND
    /\ resp.arg = 1 /\ ~menu_items[1].is_available
    /\ resp.target \in DOMAIN orders
    /\ orders[resp.target].status = "CREATED"
    /\ Len(order_items) = 2
    /\ order_items[1].menu_item_id = 1 /\ order_items[1].order_id = resp.target
    /\ order_items[2].menu_item_id = 2 /\ order_items[2].order_id = resp.target

\* C21: update_payment_method changes only the fields its request carries,
\* provider and is_default, and only on the payment method named by
\* payment_id: a field left out keeps its value, type, last_four and owner
\* stay, and every other payment method stays as it is, also the owner's
\* other defaults when is_default is set to true.  On an absent payment_id
\* an ADMIN gets 404, and nothing changes.
C21_UpdateFrame ==
    [][ resp'.op = "update_payment_method" /\ IsAdmin(resp'.caller)
        => LET pid == resp'.target
               data == resp'.arg IN
           /\ UNCHANGED <<users, restaurants, menu_items, orders, order_items>>
           /\ IF pid \notin DOMAIN payment_methods
              THEN /\ resp'.code = HTTP_NOT_FOUND
                   /\ payment_methods' = payment_methods
              ELSE /\ resp'.code = HTTP_OK
                   /\ DOMAIN payment_methods' = DOMAIN payment_methods
                   /\ \A i \in DOMAIN payment_methods \ {pid} :
                        payment_methods'[i] = payment_methods[i]
                   /\ LET old == payment_methods[pid]
                          new == payment_methods'[pid] IN
                      /\ new.user_id = old.user_id
                      /\ new.type = old.type
                      /\ new.last_four = old.last_four
                      /\ new.provider = IF data.provider = <<>>
                                        THEN old.provider
                                        ELSE data.provider[1]
                      /\ new.is_default = IF data.is_default = <<>>
                                          THEN old.is_default
                                          ELSE data.is_default[1]
      ]_vars

\* An update that set is_default and left provider out: the row keeps the
\* provider an earlier update gave it, and another payment method of the
\* same owner is still a default.
C21_Witness ==
    /\ resp.op = "update_payment_method" /\ resp.code = HTTP_OK
    /\ resp.arg = PaymentMethodUpdate(<<>>, <<TRUE>>)
    /\ payment_methods[resp.target].provider = "amex"
    /\ payment_methods[resp.target].is_default
    /\ \E i \in DOMAIN payment_methods \ {resp.target} :
         /\ payment_methods[i].user_id = payment_methods[resp.target].user_id
         /\ payment_methods[i].is_default

\* Two tokens that differ in nothing but the role claim they carry
SameSubject(t1, t2) == t1.signature = t2.signature /\ t1.sub = t2.sub

\* The step is the request its response names, made with the token.
AccessRequest(token) ==
    \/ resp'.op = "create_restaurant"
       /\ request_create_restaurant(token)
    \/ resp'.op = "list_restaurants"
       /\ request_list_restaurants(token)
    \/ resp'.op = "create_menu_item"
       /\ request_create_menu_item(token)
    \/ resp'.op = "list_menu_items"
       /\ request_list_menu_items(token)
    \/ resp'.op = "toggle_availability"
       /\ request_toggle_availability(token)
    \/ resp'.op = "create_order"
       /\ request_create_order(token)
    \/ resp'.op = "list_orders"
       /\ request_list_orders(token)
    \/ resp'.op = "add_item"
       /\ request_add_item(token)
    \/ resp'.op = "checkout"
       /\ request_checkout(token)
    \/ resp'.op = "cancel"
       /\ request_cancel(token)
    \/ resp'.op = "add_payment_method"
       /\ request_add_payment_method(token)
    \/ resp'.op = "list_payments"
       /\ request_list_payments(token)
    \/ resp'.op = "update_payment_method"
       /\ request_update_payment_method(token)

\* C29: the outcome of a request, its response and its effect on the
\* store, does not depend on the role claim of its token: in the state the
\* request was made in, every token that names the same user with another
\* role claim, or with none, gives the same response and the same store.
C29_RoleClaimIgnored ==
    [][ resp'.op # "none"
        => \A t \in Tokens \ {cred'} :
             SameSubject(t, cred') => AccessRequest(t)
      ]_vars

\* A token of the MEMBER that claims the role ADMIN is refused an
\* ADMIN-only operation.
C29_Witness ==
    /\ resp.op = "create_restaurant" /\ resp.code = HTTP_FORBIDDEN
    /\ cred.signature = "valid" /\ cred.role = "ADMIN"
    /\ users[cred.sub].role = "MEMBER"
    /\ resp.caller = cred.sub

\* The order's restaurant is in the country of the order's owner.
OrderInOwnersCountry(order) ==
    restaurants[order.restaurant_id].country_id
        = users[order.user_id].country_id

\* C31: every order of a user who is no ADMIN is at a restaurant of the
\* owner's country, before and after every step, and no step changes the
\* owner or the restaurant of an order that exists.
C31_OrderStaysInOwnersCountry ==
    [][ /\ \A o \in DOMAIN orders :
             ~IsAdmin(orders[o].user_id) => OrderInOwnersCountry(orders[o])
        /\ \A o \in DOMAIN orders' :
             ~IsAdmin(orders'[o].user_id) => OrderInOwnersCountry(orders'[o])
        /\ \A o \in DOMAIN orders :
             /\ o \in DOMAIN orders'
             /\ orders'[o].user_id = orders[o].user_id
             /\ orders'[o].restaurant_id = orders[o].restaurant_id
        /\ UNCHANGED <<users, restaurants>>
      ]_vars

\* The MANAGER's order, at the restaurant of the MANAGER's country, has
\* been filled and checked out by its owner.
C31_Witness ==
    /\ resp.op = "checkout" /\ resp.code = HTTP_OK
    /\ resp.caller = orders[resp.target].user_id
    /\ users[resp.caller].role = "MANAGER"
    /\ OrderInOwnersCountry(orders[resp.target])
    /\ orders[resp.target].status = "PLACED"
    /\ ItemsIn(order_items, resp.target) # {}

\* C32: every OrderItem of an order references a menu item of the order's
\* restaurant.
C32_ItemsOfOrdersRestaurant ==
    \A i \in DOMAIN order_items :
        menu_items[order_items[i].menu_item_id].restaurant_id
            = orders[order_items[i].order_id].restaurant_id
====
